---- MODULE Spec2Model ----
(***************************************************************************)
(* Gif-Subs: transcript acquisition (src/download_subs.py) and the search  *)
(* and clip pipeline (src/app.py), as a state machine over the filesystem. *)
(* Strings are tuples of one-character strings, so that prefixes, globs,   *)
(* sanitisation and formatting are computed character by character.        *)
(***************************************************************************)
EXTENDS Integers, Sequences, FiniteSets, TLC

VARIABLES
    subs,       \* subs/ : file name -> sequence of cues (the Transcript Store)
    subsDir,    \* TRUE when the directory subs/ exists
    temps,      \* working directory: set of temp_<id>.* audio file names
    subsBefore, \* the Transcript Store as the last per-video run found it
    lastRun,    \* record of the last download_or_generate_subs run
    entriesIn,  \* the entries the current process_url call resolved
    ran,        \* video ids that call has run acquisition for, in order
    pc,         \* "idle", or "loop" while process_url iterates a playlist
    escaped,    \* TRUE when the last process_url call raised to its caller
    gifs,       \* gifs/ : path -> content, clip artifacts and temp media alike
    lastClip,   \* record of the last create_gif_snippet call
    prevClip,   \* output path and result of the call before it
    nClips,     \* number of create_gif_snippet calls made
    embeddings, \* load_index's first result: unloaded, None, or the texts embedded
    metadata,   \* load_index's second result: the corpus, one entry per cue
    shown,      \* the hits the search loop presented, in order
    component,  \* which component this run exercises
    sessions,   \* concurrent create_gif_snippet calls: caller -> position and locals
    gifsDir,    \* TRUE when the directory gifs/ exists
    stamp       \* a segment time and the timestamp format_timestamp wrote for it

acqVars == <<subs, subsDir, temps, subsBefore, lastRun, entriesIn, ran, pc, escaped>>
clipVars == <<gifs, lastClip, prevClip, nClips, gifsDir>>
searchVars == <<embeddings, metadata, shown>>
vars == <<subs, subsDir, temps, subsBefore, lastRun, entriesIn, ran, pc, escaped,
          gifs, lastClip, prevClip, nClips, embeddings, metadata, shown, component,
          sessions, gifsDir, stamp>>

----------------------------------------------------------------------------
(* Character strings *)

Max(a, b) == IF a >= b THEN a ELSE b
Min(a, b) == IF a <= b THEN a ELSE b

IsPrefix(p, s) == Len(p) <= Len(s) /\ SubSeq(s, 1, Len(p)) = p
IsSuffix(p, s) == Len(p) <= Len(s) /\ SubSeq(s, Len(s) - Len(p) + 1, Len(s)) = p

DigitChar == <<"0", "1", "2", "3", "4", "5", "6", "7", "8", "9">>

RECURSIVE DecStr(_)
\* str(n) / f"{n}" for a non-negative integer
DecStr(n) == IF n < 10 THEN <<DigitChar[n + 1]>>
             ELSE DecStr(n \div 10) \o <<DigitChar[(n % 10) + 1]>>

RECURSIVE ZeroPad(_, _)
\* the 0-flag of a format width: pad on the left to at least w characters
ZeroPad(s, w) == IF Len(s) >= w THEN s ELSE ZeroPad(<<"0">> \o s, w)

Whitespace == {" ", "\n", "\t"}

RECURSIVE LStrip(_)
LStrip(s) == IF s # <<>> /\ Head(s) \in Whitespace THEN LStrip(Tail(s)) ELSE s

RECURSIVE RStrip(_)
RStrip(s) == IF s # <<>> /\ s[Len(s)] \in Whitespace
             THEN RStrip(SubSeq(s, 1, Len(s) - 1)) ELSE s

\* str.strip()
Strip(s) == RStrip(LStrip(s))

\* "".join(c for c in s if keep(c))
RECURSIVE FilterChars(_, _)
FilterChars(s, keep) ==
    IF s = <<>> THEN <<>>
    ELSE (IF Head(s) \in keep THEN <<Head(s)>> ELSE <<>>) \o FilterChars(Tail(s), keep)

\* s.replace(a, b) for single characters a, b
ReplaceChar(s, a, b) == [i \in 1..Len(s) |-> IF s[i] = a THEN b ELSE s[i]]

\* s.replace(a, "") for a single character a
RECURSIVE RemoveChar(_, _)
RemoveChar(s, a) ==
    IF s = <<>> THEN <<>>
    ELSE (IF Head(s) = a THEN <<>> ELSE <<Head(s)>>) \o RemoveChar(Tail(s), a)

----------------------------------------------------------------------------
(* Transcript acquisition: src/download_subs.py *)

\* Bounds of the acquisition model
MaxSegs == 2
MaxPlaylist == 2

\* Video identifiers; one is a prefix of another
VideoIds == { <<"a">>, <<"a", "b">> }
NoVid == <<>>

VttExt == <<".", "v", "t", "t">>
\* the name yt-dlp and the fallback both give a transcript: <id>.el.vtt
SubsName(vid) == vid \o <<".", "e", "l">> \o VttExt
\* audio_file = f"temp_{video_id}.mp3"
AudioName(vid) == <<"temp_">> \o vid \o <<".", "m", "p", "3">>

\* glob.glob(f"subs/{video_id}*.vtt") over a store
GlobSubs(store, vid) ==
    { n \in DOMAIN store : IsPrefix(vid, n) /\ IsSuffix(VttExt, SubSeq(n, Len(vid) + 1, Len(n))) }

\* Times are in ticks of 1/10000 s, so that sub-millisecond values exist.
TicksPerSec == 10000
TicksPerMs == 10

\* A time of T ticks reaches format_timestamp as the binary double nearest
\* to T / 10000. DoubleSide(T) is the side of T / 10000 that double lies on:
\* -1 below, 0 exactly on it, 1 above. With 2^52 <= (T / 10000) * 2^e < 2^53
\* the double's mantissa is (T * 2^e) / 10000 rounded, so the side is read off
\* the remainder of T * 2^e modulo 10000.
MantissaBits == 52
RECURSIVE Pow2Mod(_)
Pow2Mod(e) == IF e = 0 THEN 1 ELSE (2 * Pow2Mod(e - 1)) % TicksPerSec
DoubleSide(T) ==
    IF T = 0 THEN 0
    ELSE LET e == IF T < TicksPerSec
                  THEN MantissaBits + (CHOOSE j \in 0..14 :
                            T * 2^j >= TicksPerSec /\ T * 2^j < 2 * TicksPerSec)
                  ELSE MantissaBits - (CHOOSE k \in 0..16 :
                            /\ T < 2 * TicksPerSec * 2^k
                            /\ k > 0 => T >= TicksPerSec * 2^k)
             r == ((T % TicksPerSec) * Pow2Mod(e)) % TicksPerSec
         IN  IF r = 0 THEN 0 ELSE IF 2 * r < TicksPerSec THEN -1 ELSE 1

\* f"{s:06.3f}" for 0 <= s < 60 s: three decimals, zero-padded to six
\* characters. s is t ticks up to the error of its double, which lies on
\* `side` of t; the double's exact value is rounded to the millisecond, so
\* a value written x.xxx5 goes the way its double lies, and to the even
\* millisecond only when the double is exact.
FormatSeconds(t, side) ==
    LET q == t \div TicksPerMs
        r == t % TicksPerMs
        up == \/ 2 * r > TicksPerMs
              \/ 2 * r = TicksPerMs /\ (side > 0 \/ (side = 0 /\ q % 2 = 1))
        ms == IF up THEN q + 1 ELSE q
    IN ZeroPad(DecStr(ms \div 1000) \o <<".">> \o ZeroPad(DecStr(ms % 1000), 3), 6)

\* format_timestamp: divmod by 60 twice, then "{int(h):02d}:{int(m):02d}:{s:06.3f}".
\* divmod is exact on doubles, so s keeps the error of seconds.
format_timestamp(seconds) ==
    LET m0 == seconds \div (60 * TicksPerSec)
        s == seconds % (60 * TicksPerSec)
        h == m0 \div 60
        m == m0 % 60
    IN ZeroPad(DecStr(h), 2) \o <<":">> \o ZeroPad(DecStr(m), 2) \o <<":">>
            \o FormatSeconds(s, DoubleSide(seconds))

\* Segment times of the timestamp runs: whole seconds around the minute and
\* hour boundaries, with fractions on either side of a millisecond and
\* halfway between two
StampSeconds == {0, 1, 9, 59, 60, 61, 119, 3599, 3600, 3659, 7199}
StampFractions == {0, 4, 5, 6, 15, 25, 625, 5004, 9994, 9995, 9996, 9999}
StampInputs == { w * TicksPerSec + f : w \in StampSeconds, f \in StampFractions }
NoStamp == [seconds |-> 0, out |-> <<>>]

\* Lines 137-138: format_timestamp applied to one segment time
FormatTimestamp ==
    /\ component = "timestamp"
    /\ stamp.out = <<>>
    /\ stamp' = [stamp EXCEPT !.out = format_timestamp(stamp.seconds)]
    /\ UNCHANGED <<acqVars, clipVars, searchVars, component, sessions>>

\* The segments the transcription capability yields for a video: ordered in
\* time, text with the leading blank the recogniser emits.
SegText == << <<" ", "n", "a", "i">>, <<" ", "o", "x", "i", " ">>, <<" ", "o", "k">> >>
Segment(i) == [start |-> (i - 1) * 25000, end |-> i * 25000 - 4,
               text |-> SegText[((i - 1) % Len(SegText)) + 1]]
Segments(n) == [i \in 1..n |-> Segment(i)]


\* One cue block written at line 141: "{start} --> {end}\n{text}\n\n"
WriteCue(segment) ==
    [start |-> format_timestamp(segment.start),
     end |-> format_timestamp(segment.end),
     text |-> Strip(segment.text)]

\* WriteCue over the segments of the model, evaluated once
CueOf == [g \in {Segment(i) : i \in 1..(MaxSegs + 1)} |-> WriteCue(g)]

\* What the platform's own subtitle file holds when it exists
PlatformCue == [start |-> format_timestamp(10000), end |-> format_timestamp(30000),
                text |-> <<"h", "i">>]
PlatformCues(vid) == <<PlatformCue>>

\* What the external capabilities do during one per-video run:
\*   platform: the subtitle request writes the file / writes none / raises
\*   audio: the audio download writes temp_<id>.mp3 / returns without a file /
\*          raises
\*   asr: transcribe() raises before the transcript is opened / the segment
\*        generator yields n segments, raising after the k-th when k < n
Envs ==
    { [platform |-> p, audio |-> "-", asr |-> "-", n |-> 0, k |-> 0] : p \in {"subs", "raise"} }
    \cup { [platform |-> "none", audio |-> a, asr |-> "-", n |-> 0, k |-> 0] :
             a \in {"nofile", "raise"} }
    \cup { [platform |-> "none", audio |-> "ok", asr |-> "raise", n |-> 0, k |-> 0] }
    \cup { [platform |-> "none", audio |-> "ok", asr |-> "segments", n |-> p[1], k |-> p[2]] :
             p \in { q \in (0..MaxSegs) \X (0..MaxSegs) : q[2] <= q[1] } }
NoEnv == [platform |-> "-", audio |-> "-", asr |-> "-", n |-> 0, k |-> 0]

\* Line 134: open(vtt_path, "w") raises FileNotFoundError when subs/ is not
\* there; no line of download_subs.py creates the directory
OpenFails(dir) == ~dir

\* Lines 134-141 left unguarded: the file is created at open() and every cue
\* is written as its segment arrives, so k cues are on disk when the
\* generator raises after the k-th segment. Nothing is written when open()
\* fails.
WriteVtt(store, dir, vid, segments, k) ==
    IF OpenFails(dir) THEN store
    ELSE [n \in DOMAIN store \cup {SubsName(vid)} |->
            IF n = SubsName(vid) THEN [i \in 1..k |-> CueOf[segments[i]]] ELSE store[n]]

\* Lines 113-117: the audio download and what it leaves in the directory
AudioDownload(tmp, vid, env) ==
    IF env.audio = "ok" THEN tmp \cup {AudioName(vid)} ELSE tmp

\* Line 119: if not os.path.exists(audio_file): return
AudioCheckDropped(tmp, vid) == FALSE
AudioMissing(tmp, vid) == AudioName(vid) \notin tmp

\* Line 144: if os.path.exists(audio_file): os.remove(audio_file)
KeepAudio(tmp, vid) == tmp
RemoveAudio(tmp, vid) == tmp \ {AudioName(vid)}

\* generate_subs_with_whisper: lines 101-144
generate_subs_with_whisper(store, dir, tmp, vid, env) ==
    LET tmp1 == AudioDownload(tmp, vid, env)
        segments == Segments(env.n)
        stop == [subs |-> store, temps |-> tmp1, calls |-> <<"audio">>,
                 audioPresent |-> AudioName(vid) \in tmp1, segments |-> <<>>,
                 status |-> "FAILED"]
        called == [stop EXCEPT !.calls = <<"audio", "transcribe">>, !.status = "RAISED"]
    IN  IF env.audio = "raise" THEN stop
        ELSE IF AudioMissing(tmp1, vid) THEN stop
        ELSE IF env.asr = "raise" THEN called
        ELSE IF OpenFails(dir) THEN called
        ELSE IF env.k < env.n
            THEN [called EXCEPT !.subs = WriteVtt(store, dir, vid, segments, env.k),
                                !.segments = segments]
        ELSE [called EXCEPT !.subs = WriteVtt(store, dir, vid, segments, env.n),
                            !.temps = RemoveAudio(tmp1, vid),
                            !.segments = segments,
                            !.status = "DONE"]

\* Lines 89-90: the downloader creates the directory of outtmpl when it
\* writes a subtitle file; a run that leaves no file is taken to leave the
\* directory as it was
PlatformMakesDir(dir, env) == dir \/ env.platform = "subs"

\* Lines 89-90 with writesubtitles and outtmpl subs/<id>
PlatformDownload(store, vid, env) ==
    IF env.platform = "subs"
    THEN [n \in DOMAIN store \cup {SubsName(vid)} |->
            IF n = SubsName(vid) THEN PlatformCues(vid) ELSE store[n]]
    ELSE store

\* Lines 66-70: the existence check
NeverAcquired(store, vid) == FALSE
AlreadyAcquired(store, vid) == GlobSubs(store, vid) # {}

\* download_or_generate_subs: the record of one per-video run
download_or_generate_subs(store, dir, tmp, vid, env) ==
    LET skip == [subs |-> store, temps |-> tmp, calls |-> <<>>, audioPresent |-> FALSE,
                 segments |-> <<>>, status |-> "DONE"]
        store1 == PlatformDownload(store, vid, env)
        dir1 == PlatformMakesDir(dir, env)
        w == generate_subs_with_whisper(store1, dir1, tmp, vid, env)
        r == IF AlreadyAcquired(store, vid) THEN skip
             ELSE IF env.platform = "raise"
                 THEN [skip EXCEPT !.calls = <<"subs">>, !.status = "RAISED"]
             ELSE IF GlobSubs(store1, vid) # {}
                 THEN [skip EXCEPT !.subs = store1, !.calls = <<"subs">>]
             ELSE [w EXCEPT !.calls = <<"subs">> \o w.calls]
    IN  r @@ [vid |-> vid, existed |-> AlreadyAcquired(store, vid),
              dir |-> IF AlreadyAcquired(store, vid) THEN dir ELSE dir1,
              env |-> IF AlreadyAcquired(store, vid) THEN NoEnv ELSE env]

NoRun == [vid |-> NoVid, status |-> "-"]

\* Lines 57-59: except Exception ... continue. What the playlist loop does
\* with the outcome of one entry: whether it goes on, whether it raises.
HandleEntryReraise(run) == [continue |-> run.status # "RAISED", raises |-> run.status = "RAISED"]
HandleEntry(run) == [continue |-> TRUE, raises |-> FALSE]

\* Line 61: the single-video path calls the run outside any try
HandleSingle(run) == [raises |-> run.status = "RAISED"]

\* Line 51: entries = [e for e in info['entries'] if e]
RECURSIVE KeepEntries(_)
KeepEntries(raw) ==
    IF raw = <<>> THEN <<>>
    ELSE (IF Head(raw) = NoVid THEN <<>> ELSE <<Head(raw)>>) \o KeepEntries(Tail(raw))

RawPlaylists == UNION { [1..n -> VideoIds \cup {NoVid}] : n \in 0..MaxPlaylist }

\* One per-video run and its bookkeeping
RunVideo(vid, env) ==
    LET r == download_or_generate_subs(subs, subsDir, temps, vid, env)
    IN  /\ subs' = r.subs
        /\ subsDir' = r.dir
        /\ temps' = r.temps
        /\ subsBefore' = subs
        /\ lastRun' = [vid |-> r.vid, status |-> r.status, calls |-> r.calls,
                       existed |-> r.existed, audioPresent |-> r.audioPresent,
                       segments |-> r.segments, env |-> r.env]

\* process_url, lines 40-48: the scan raises or finds nothing
ScanFails ==
    /\ component = "acquisition"
    /\ pc = "idle"
    /\ entriesIn' = <<>>
    /\ ran' = <<>>
    /\ escaped' = FALSE
    /\ UNCHANGED <<subs, subsDir, temps, subsBefore, lastRun, pc, clipVars, searchVars, component, sessions, stamp>>

\* process_url, lines 60-61: the URL is a single video
ProcessSingle(vid, env) ==
    /\ component = "acquisition"
    /\ pc = "idle"
    /\ RunVideo(vid, env)
    /\ entriesIn' = <<>>
    /\ ran' = <<vid>>
    /\ escaped' = HandleSingle(lastRun').raises
    /\ pc' = "idle"
    /\ UNCHANGED <<clipVars, searchVars, component, sessions, stamp>>

\* process_url, lines 50-52: the URL is a playlist
ScanPlaylist(raw) ==
    /\ component = "acquisition"
    /\ pc = "idle"
    /\ entriesIn' = KeepEntries(raw)
    /\ ran' = <<>>
    /\ escaped' = FALSE
    /\ pc' = IF KeepEntries(raw) = <<>> THEN "idle" ELSE "loop"
    /\ UNCHANGED <<subs, subsDir, temps, subsBefore, lastRun, clipVars, searchVars, component, sessions, stamp>>

\* process_url, lines 53-59: one iteration of the playlist loop
PlaylistStep(env) ==
    /\ component = "acquisition"
    /\ pc = "loop"
    /\ LET vid == entriesIn[Len(ran) + 1]
       IN  /\ RunVideo(vid, env)
           /\ ran' = Append(ran, vid)
           /\ escaped' = HandleEntry(lastRun').raises
           /\ pc' = IF HandleEntry(lastRun').continue /\ Len(ran') < Len(entriesIn)
                    THEN "loop" ELSE "idle"
    /\ UNCHANGED <<entriesIn, clipVars, searchVars, component, sessions, stamp>>

----------------------------------------------------------------------------
(* Clip synthesis: src/app.py, create_gif_snippet *)

\* Bound on the number of create_gif_snippet calls in a run
MaxClipCalls == 2

\* Line 59: the first 20 characters of the cleaned caption name the artifact
KeyLen == 20
\* Line 69: the window downloaded is start_seconds .. start_seconds + 4
ClipSeconds == 4

Letters == {"a", "b", "c", "d", "e", "f", "g", "h", "i", "j", "k", "l", "m", "n",
            "o", "p", "q", "r", "s", "t", "u", "v", "w", "x", "y", "z"}
\* str.isalnum() over the characters of the model
Alnum == Letters \cup {DigitChar[i] : i \in 1..10}

CapHello == <<"h", "e", "l", "l", "o", " ", "w", "o", "r", "l", "d">>
CapHelloBang == <<"h", "e", "l", "l", "o", " ", "w", "o", "r", "l", "d", "!">>
CapQuoted == <<"i", "t", "'", "s", ":", " ", "\"", "o", "k", "\"">>
CapLong == <<"o", "n", "e", " ", "t", "w", "o", " ", "t", "h", "r", "e", "e", " ", "f", "o", "u", "r", " ", "f", "i", "v", "e">>
Captions == {CapHello, CapHelloBang, CapQuoted, CapLong}
StartSeconds == {0, 8}

GifsDir == <<"g", "i", "f", "s", "/">>
TempPrefix(vid) == GifsDir \o <<"t", "e", "m", "p", "_">> \o vid
\* temp_video = f"gifs/temp_{video_id}.mp4"
TempVideo(vid) == TempPrefix(vid) \o <<".", "m", "p", "4">>
\* what an interrupted download leaves: gifs/temp_<id>.mp4.part
TempPart(vid) == TempVideo(vid) \o <<".", "p", "a", "r", "t">>

\* Line 59: safe_text
SafeText(caption) ==
    LET kept == Strip(FilterChars(caption, Alnum \cup {" "}))
    IN SubSeq(kept, 1, Min(KeyLen, Len(kept)))

\* Line 60: output_gif
OutputGifSpaces(vid, start, caption) ==
    GifsDir \o vid \o <<"_">> \o DecStr(start) \o <<"_">>
        \o SafeText(caption) \o <<".", "g", "i", "f">>
OutputGif(vid, start, caption) ==
    GifsDir \o vid \o <<"_">> \o DecStr(start) \o <<"_">>
        \o ReplaceChar(SafeText(caption), " ", "_") \o <<".", "g", "i", "f">>

\* Line 87: safe_caption, the text drawn on the clip
SafeCaptionNoColonPass(caption) == RemoveChar(caption, "'")
SafeCaption(caption) == RemoveChar(RemoveChar(caption, "'"), ":")

\* Lines 90-99: the filter specification around the caption
FilterHead ==
    <<"f", "p", "s", "=", "1", "2", ",", "s", "c", "a", "l", "e", "=", "4",
      "8", "0", ":", "-", "1", ",", "d", "r", "a", "w", "t", "e", "x", "t",
      "=", "f", "o", "n", "t", "f", "i", "l", "e", "=", "'", "C", "\\", ":",
      "/", "W", "i", "n", "d", "o", "w", "s", "/", "F", "o", "n", "t", "s",
      "/", "a", "r", "i", "a", "l", ".", "t", "t", "f", "'", ":", "t", "e",
      "x", "t", "=", "'">>
FilterTail ==
    <<"'", ":", "f", "o", "n", "t", "c", "o", "l", "o", "r", "=", "w", "h",
      "i", "t", "e", ":", "f", "o", "n", "t", "s", "i", "z", "e", "=", "2",
      "4", ":", "b", "o", "x", "=", "1", ":", "b", "o", "x", "c", "o", "l",
      "o", "r", "=", "b", "l", "a", "c", "k", "@", "0", ".", "5", ":", "b",
      "o", "x", "b", "o", "r", "d", "e", "r", "w", "=", "5", ":", "x", "=",
      "(", "w", "-", "t", "e", "x", "t", "_", "w", ")", "/", "2", ":", "y",
      "=", "h", "-", "t", "e", "x", "t", "_", "h", "-", "1", "0", ",", "s",
      "p", "l", "i", "t", "[", "s", "0", "]", "[", "s", "1", "]", ";", "[",
      "s", "0", "]", "p", "a", "l", "e", "t", "t", "e", "g", "e", "n", "[",
      "p", "]", ";", "[", "s", "1", "]", "[", "p", "]", "p", "a", "l", "e",
      "t", "t", "e", "u", "s", "e">>
filters(caption) == FilterHead \o SafeCaption(caption) \o FilterTail

\* Lines 52-54: remove every gifs/temp_<id>* file
PurgeTemps(dir, vid) ==
    [n \in {m \in DOMAIN dir : ~IsPrefix(TempPrefix(vid), m)} |-> dir[n]]

\* Lines 76-81: the windowed download and what it leaves in gifs/
ClipDownload(dir, vid, start, env) ==
    LET name == IF env.download = "ok" THEN TempVideo(vid) ELSE TempPart(vid)
        media == [kind |-> "media", vid |-> vid, from |-> start, to |-> start + ClipSeconds]
    IN  IF env.download \in {"ok", "raise_part"}
        THEN [n \in DOMAIN dir \cup {name} |-> IF n = name THEN media ELSE dir[n]]
        ELSE dir

\* Lines 101-106: ffmpeg -y -i temp_video -vf filters output_gif. A run that
\* fails may already have created the output file.
Encode(dir, vid, out, caption, env) ==
    LET gif == [kind |-> IF env.encode = "ok" THEN "gif" ELSE "broken",
                text |-> SafeCaption(caption), media |-> dir[TempVideo(vid)]]
    IN  IF env.encode \in {"ok", "fail_partial"}
        THEN [n \in DOMAIN dir \cup {out} |-> IF n = out THEN gif ELSE dir[n]]
        ELSE dir

\* Line 107: if os.path.exists(temp_video): os.remove(temp_video)
RemoveTemp(dir, vid) == [n \in DOMAIN dir \ {TempVideo(vid)} |-> dir[n]]

\* What the external tools do during one call
ClipEnvs ==
    { [download |-> d, encode |-> "-"] : d \in {"nofile", "raise", "raise_part"} }
    \cup { [download |-> "ok", encode |-> e] : e \in {"ok", "fail", "fail_partial"} }
NoClipEnv == [download |-> "-", encode |-> "-"]
None == <<"None">>

\* Line 62: if os.path.exists(output_gif): return output_gif
CacheNever(dir, out) == FALSE
CacheHit(dir, out) == out \in DOMAIN dir

\* create_gif_snippet: the directory afterwards and the record of the call
create_gif_snippet(dir, vid, start, caption, env) ==
    LET out == OutputGif(vid, start, caption)
        dir1 == PurgeTemps(dir, vid)
        dir2 == ClipDownload(dir1, vid, start, env)
        dir3 == Encode(dir2, vid, out, caption, env)
        call == [vid |-> vid, start |-> start, caption |-> caption, path |-> out,
                 calls |-> <<>>, env |-> NoClipEnv, result |-> out,
                 purged |-> DOMAIN dir \ DOMAIN dir1, filters |-> <<>>]
    IN  IF CacheHit(dir1, out)
            THEN [gifs |-> dir1, call |-> call]
        ELSE IF env.download \in {"raise", "raise_part"}
            THEN [gifs |-> dir2,
                  call |-> [call EXCEPT !.calls = <<"download">>, !.env = env, !.result = None]]
        ELSE IF TempVideo(vid) \notin DOMAIN dir2
            THEN [gifs |-> dir2,
                  call |-> [call EXCEPT !.calls = <<"download">>, !.env = env, !.result = None]]
        ELSE IF env.encode = "ok"
            THEN [gifs |-> RemoveTemp(dir3, vid),
                  call |-> [call EXCEPT !.calls = <<"download", "encode">>, !.env = env,
                                        !.filters = filters(caption)]]
        ELSE [gifs |-> dir3,
              call |-> [call EXCEPT !.calls = <<"download", "encode">>, !.env = env,
                                    !.filters = filters(caption), !.result = None]]

NoClip == [vid |-> NoVid, path |-> <<>>, result |-> <<>>]

\* One call of create_gif_snippet
CreateGif(vid, start, caption, env) ==
    /\ component = "clip"
    /\ nClips < MaxClipCalls
    /\ LET r == create_gif_snippet(gifs, vid, start, caption, env)
       IN  /\ gifs' = r.gifs
           /\ lastClip' = r.call
    /\ prevClip' = [vid |-> lastClip.vid, path |-> lastClip.path, result |-> lastClip.result]
    /\ nClips' = nClips + 1
    /\ gifsDir' = TRUE
    /\ UNCHANGED <<acqVars, searchVars, component, sessions, stamp>>

\* Two browser sessions, each running create_gif_snippet in its own script
\* thread: the calls interleave between their filesystem operations
Sessions == {1, 2}
SessionArgs ==
    { [vid |-> <<"a">>, start |-> 0, caption |-> CapHello],
      [vid |-> <<"a">>, start |-> 8, caption |-> CapHello],
      [vid |-> <<"a">>, start |-> 0, caption |-> CapLong],
      [vid |-> <<"a", "b">>, start |-> 0, caption |-> CapHello] }
NoMedia == [kind |-> "none", vid |-> NoVid, from |-> 0, to |-> 0]
\* a call at its first statement, output_gif as line 60 computes it
Fresh(arg) ==
    [pc |-> "exists", vid |-> arg.vid, start |-> arg.start, caption |-> arg.caption,
     path |-> OutputGif(arg.vid, arg.start, arg.caption), listed |-> {},
     own |-> NoMedia, rendered |-> FALSE, result |-> <<>>]

\* what a call leaves its caller when os.makedirs raises out of it
Raised == <<"FileExistsError">>

\* Line 49, first half: if not os.path.exists("gifs")
SessionDirExists(p) ==
    /\ component = "sessions"
    /\ sessions[p].pc = "exists"
    /\ sessions' = [sessions EXCEPT ![p].pc = IF gifsDir THEN "glob" ELSE "makedirs"]
    /\ UNCHANGED <<acqVars, clipVars, searchVars, component, stamp>>

\* Line 49, second half: os.makedirs("gifs"), outside every try: on a
\* directory that exists by now FileExistsError leaves the function
SessionMakedirs(p) ==
    /\ component = "sessions"
    /\ sessions[p].pc = "makedirs"
    /\ gifsDir' = TRUE
    /\ sessions' = IF gifsDir
                    THEN [sessions EXCEPT ![p].pc = "done", ![p].result = Raised]
                    ELSE [sessions EXCEPT ![p].pc = "glob"]
    /\ UNCHANGED <<acqVars, gifs, lastClip, prevClip, nClips, searchVars, component, stamp>>

\* Line 52: glob.glob(f"gifs/temp_{video_id}*") lists the files to purge
SessionGlob(p) ==
    /\ component = "sessions"
    /\ sessions[p].pc = "glob"
    /\ LET found == {n \in DOMAIN gifs : IsPrefix(TempPrefix(sessions[p].vid), n)}
       IN  sessions' = [sessions EXCEPT ![p].listed = found,
                            ![p].pc = IF found = {} THEN "check" ELSE "purge"]
    /\ UNCHANGED <<acqVars, clipVars, searchVars, component, stamp>>

\* Lines 53-54: os.remove of one listed file; a file that is gone by now
\* raises, and the except passes
SessionPurge(p) ==
    /\ component = "sessions"
    /\ sessions[p].pc = "purge"
    /\ \E f \in sessions[p].listed :
        /\ gifs' = [n \in DOMAIN gifs \ {f} |-> gifs[n]]
        /\ sessions' = [sessions EXCEPT ![p].listed = sessions[p].listed \ {f},
                            ![p].pc = IF sessions[p].listed = {f} THEN "check" ELSE "purge"]
    /\ UNCHANGED <<acqVars, lastClip, prevClip, nClips, gifsDir, searchVars, component, stamp>>

\* Line 62: the cache check
SessionCheck(p) ==
    /\ component = "sessions"
    /\ sessions[p].pc = "check"
    /\ sessions' = IF CacheHit(gifs, sessions[p].path)
                    THEN [sessions EXCEPT ![p].pc = "done", ![p].result = sessions[p].path]
                    ELSE [sessions EXCEPT ![p].pc = "download"]
    /\ UNCHANGED <<acqVars, clipVars, searchVars, component, stamp>>

\* Lines 65-81: the windowed download; a raise returns None
SessionDownload(p, d) ==
    /\ component = "sessions"
    /\ sessions[p].pc = "download"
    /\ LET me == sessions[p]
           dir == ClipDownload(gifs, me.vid, me.start, [download |-> d, encode |-> "-"])
       IN  /\ gifs' = dir
           /\ sessions' =
                IF d \in {"raise", "raise_part"}
                THEN [sessions EXCEPT ![p].pc = "done", ![p].result = None]
                ELSE [sessions EXCEPT ![p].pc = "downloaded",
                        ![p].own = IF d = "ok" THEN dir[TempVideo(me.vid)] ELSE NoMedia]
    /\ UNCHANGED <<acqVars, lastClip, prevClip, nClips, gifsDir, searchVars, component, stamp>>

\* Lines 83-84: if not os.path.exists(temp_video): return None
SessionTempCheck(p) ==
    /\ component = "sessions"
    /\ sessions[p].pc = "downloaded"
    /\ sessions' = IF TempVideo(sessions[p].vid) \in DOMAIN gifs
                    THEN [sessions EXCEPT ![p].pc = "encode"]
                    ELSE [sessions EXCEPT ![p].pc = "done", ![p].result = None]
    /\ UNCHANGED <<acqVars, clipVars, searchVars, component, stamp>>

\* Lines 101-106: the encoder run on temp_video, which fails when the file
\* is no longer there
SessionEncode(p, e) ==
    /\ component = "sessions"
    /\ sessions[p].pc = "encode"
    /\ LET me == sessions[p]
       IN  IF TempVideo(me.vid) \notin DOMAIN gifs
           THEN /\ e = "fail"
                /\ gifs' = gifs
                /\ sessions' = [sessions EXCEPT ![p].pc = "done", ![p].result = None]
           ELSE /\ gifs' = Encode(gifs, me.vid, me.path, me.caption,
                                  [download |-> "ok", encode |-> e])
                /\ sessions' = IF e = "ok"
                                THEN [sessions EXCEPT ![p].pc = "encoded", ![p].rendered = TRUE]
                                ELSE [sessions EXCEPT ![p].pc = "done", ![p].result = None]
    /\ UNCHANGED <<acqVars, lastClip, prevClip, nClips, gifsDir, searchVars, component, stamp>>

\* Line 107, first half: if os.path.exists(temp_video); line 108 when not
SessionTempExists(p) ==
    /\ component = "sessions"
    /\ sessions[p].pc = "encoded"
    /\ sessions' = IF TempVideo(sessions[p].vid) \in DOMAIN gifs
                    THEN [sessions EXCEPT ![p].pc = "remove"]
                    ELSE [sessions EXCEPT ![p].pc = "done", ![p].result = sessions[p].path]
    /\ UNCHANGED <<acqVars, clipVars, searchVars, component, stamp>>

\* Line 107, second half: os.remove(temp_video), then line 108; a file that
\* is gone by now raises inside the try and lines 109-111 return None
SessionRemoveTemp(p) ==
    /\ component = "sessions"
    /\ sessions[p].pc = "remove"
    /\ gifs' = RemoveTemp(gifs, sessions[p].vid)
    /\ sessions' = IF TempVideo(sessions[p].vid) \in DOMAIN gifs
                    THEN [sessions EXCEPT ![p].pc = "done", ![p].result = sessions[p].path]
                    ELSE [sessions EXCEPT ![p].pc = "done", ![p].result = None]
    /\ UNCHANGED <<acqVars, lastClip, prevClip, nClips, gifsDir, searchVars, component, stamp>>

----------------------------------------------------------------------------
(* Index and search: src/app.py, load_index and the main search loop *)

\* Bounds of the search model
MaxCorpus == 12
MaxQuery == 6

\* Line 124: top_k=10
TopK == 10
\* Line 130: scores are in hundredths, the floor is 0.25
Floor == 25
\* Line 134: the playback point is two seconds before the cue
Rewind == 2

\* s.split(c)
RECURSIVE Split(_, _)
Split(s, c) ==
    IF \A i \in 1..Len(s) : s[i] # c THEN <<s>>
    ELSE LET i == CHOOSE j \in 1..Len(s) : s[j] = c /\ \A l \in 1..(j - 1) : s[l] # c
         IN <<SubSeq(s, 1, i - 1)>> \o Split(SubSeq(s, i + 1, Len(s)), c)

DigitValue(c) == (CHOOSE i \in 1..10 : DigitChar[i] = c) - 1

RECURSIVE ParseInt(_)
ParseInt(s) == IF s = <<>> THEN 0
               ELSE ParseInt(SubSeq(s, 1, Len(s) - 1)) * 10 + DigitValue(s[Len(s)])

\* float(s) of a decimal numeral, in thousandths (numerals carry at most
\* three decimals)
ParseFloatMs(s) ==
    LET parts == Split(s, ".")
        frac == IF Len(parts) > 1 THEN parts[2] ELSE <<>>
        frac3 == SubSeq(frac \o <<"0", "0", "0">>, 1, 3)
    IN ParseInt(parts[1]) * 1000 + ParseInt(frac3)

SeekUnclamped(start) ==
    LET p == Split(start, ":")
        ms == ParseFloatMs(p[1]) * 3600 + ParseFloatMs(p[2]) * 60 + ParseFloatMs(p[3])
    IN (ms \div 1000) - Rewind

\* Lines 133-134: h, m, s = start.split(':'), then
\* max(0, int(float(h) * 3600 + float(m) * 60 + float(s)) - 2)
SeekSeconds(start) ==
    LET p == Split(start, ":")
        ms == ParseFloatMs(p[1]) * 3600 + ParseFloatMs(p[2]) * 60 + ParseFloatMs(p[3])
    IN Max(0, (ms \div 1000) - Rewind)

\* Line 33: video_id = filename.split('.')[0]
IndexVideoId(name) == Split(name, ".")[1]

\* Line 36: caption.text.strip().replace('\n', ' ')
CleanText(text) == ReplaceChar(Strip(text), "\n", " ")

\* Line 37: if len(clean_text) < 3: continue
KeepAll(text) == FALSE
TooShort(text) == Len(text) < 3

\* A cue timing HH:MM:SS.mmm as the transcript parser accepts it
TimestampOk(t) ==
    /\ Len(t) = 12
    /\ t[3] = ":" /\ t[6] = ":" /\ t[9] = "."
    /\ \A i \in {1, 2, 4, 5, 7, 8, 10, 11, 12} : \E d \in 1..10 : DigitChar[d] = t[i]
Malformed(cue) == ~TimestampOk(cue.start) \/ ~TimestampOk(cue.end)

\* Line 35: webvtt.read(file_path) parses the whole file before the loop
\* sees a caption, and raises on a malformed block
webvtt_read_lazy(cues) ==
    LET bad == {i \in 1..Len(cues) : Malformed(cues[i])}
        first == CHOOSE i \in bad : \A j \in bad : i <= j
    IN  IF bad = {} THEN [raised |-> FALSE, captions |-> cues]
        ELSE [raised |-> TRUE, captions |-> SubSeq(cues, 1, first - 1)]
webvtt_read(cues) ==
    IF \E i \in 1..Len(cues) : Malformed(cues[i])
    THEN [raised |-> TRUE, captions |-> <<>>]
    ELSE [raised |-> FALSE, captions |-> cues]

\* Lines 35-39 for one file
RECURSIVE FileEntries(_, _)
FileEntries(vid, cues) ==
    IF cues = <<>> THEN <<>>
    ELSE LET c == Head(cues)
             e == [text |-> CleanText(c.text), start |-> c.start, video_id |-> vid]
         IN (IF TooShort(e.text) THEN <<>> ELSE <<e>>) \o FileEntries(vid, Tail(cues))

\* Lines 31-40 over the files in the order glob returned them: what the
\* loop appended for a file stays, whether or not the file then raised
RECURSIVE IndexEntries(_, _)
IndexEntries(store, files) ==
    IF files = <<>> THEN <<>>
    ELSE FileEntries(IndexVideoId(Head(files)), webvtt_read(store[Head(files)]).captions)
            \o IndexEntries(store, Tail(files))

NoEmbeddings == [is |-> "None", rows |-> <<>>]
Unloaded == [is |-> "unloaded", rows |-> <<>>]

\* load_index with corpus_texts.append ahead of the length check of line 37
RECURSIVE UnfilteredTexts(_, _)
UnfilteredTexts(store, files) ==
    IF files = <<>> THEN <<>>
    ELSE LET caps == webvtt_read(store[Head(files)]).captions
         IN  [i \in 1..Len(caps) |-> CleanText(caps[i].text)]
                \o UnfilteredTexts(store, Tail(files))
load_index_early_append(store, files) ==
    LET md == IndexEntries(store, files)
        texts == UnfilteredTexts(store, files)
    IN  IF texts = <<>> THEN [embeddings |-> NoEmbeddings, metadata |-> <<>>]
        ELSE [embeddings |-> [is |-> "tensor", rows |-> texts], metadata |-> md]

\* load_index: (embeddings, metadata); an embedding is modelled by the text
\* it was computed from
load_index(store, files) ==
    LET md == IndexEntries(store, files)
    IN  IF md = <<>> THEN [embeddings |-> NoEmbeddings, metadata |-> <<>>]
        ELSE [embeddings |-> [is |-> "tensor", rows |-> [i \in 1..Len(md) |-> md[i].text]],
              metadata |-> md]

\* The orders in which glob may list the files of a store
FileOrders(store) ==
    { f \in [1..Cardinality(DOMAIN store) -> DOMAIN store] :
        \A i, j \in DOMAIN f : i # j => f[i] # f[j] }

\* The embedding capability: util.cos_sim of a query and a text, in
\* hundredths. A fixed function standing for the model.
Alphabet == <<" ", "a", "b", "c", "d", "e", "f", "g", "h", "i", "j", "k", "l", "m",
              "n", "o", "p", "q", "r", "s", "t", "u", "v", "w", "x", "y", "z",
              "0", "1", "2", "3", "4", "5", "6", "7", "8", "9">>
CharCode(c) == CHOOSE i \in 1..Len(Alphabet) : Alphabet[i] = c
RECURSIVE TextHash(_)
TextHash(t) == IF t = <<>> THEN 7
               ELSE (TextHash(Tail(t)) * 31 + CharCode(Head(t))) % 1009
CosSim(q, t) == ((TextHash(t) * 31 + q * 17) % 53) + 20 * (q % 3) - 5

\* util.semantic_search(query_embedding, embeddings, top_k): the top_k
\* corpus ids by score, best first
RECURSIVE BestFirst(_, _, _)
BestFirst(score, ids, k) ==
    IF k = 0 \/ ids = {} THEN <<>>
    ELSE LET best == CHOOSE i \in ids :
                        \A j \in ids : score[i] > score[j] \/ (score[i] = score[j] /\ i <= j)
         IN <<[corpus_id |-> best, score |-> score[best]]>>
                \o BestFirst(score, ids \ {best}, k - 1)

semantic_search(q, emb, k) ==
    BestFirst([i \in 1..Len(emb) |-> CosSim(q, emb[i])], 1..Len(emb), k)

\* Line 130: if score < 0.25: continue
NoFloor(score) == FALSE
BelowFloor(score) == score < Floor

\* Lines 128-136: the hits the loop presents
RECURSIVE Present(_, _)
Present(hits, md) ==
    IF hits = <<>> THEN <<>>
    ELSE LET hit == Head(hits)
             data == md[hit.corpus_id]
             row == [corpus_id |-> hit.corpus_id, score |-> hit.score,
                     seconds |-> SeekSeconds(data.start), video_id |-> data.video_id,
                     text |-> data.text, start |-> data.start]
         IN (IF BelowFloor(hit.score) THEN <<>> ELSE <<row>>) \o Present(Tail(hits), md)

\* Cues of the stores the index is built from in this model
StartTicks == <<10000, 650000, 100000, 25000, 0, 19990, 20000, 655000, 30006,
                36000000, 599994, 36615000>>
CueText(i) == IF i = 3 THEN <<" ", "n", "o", " ">>
              ELSE IF i % 4 = 1 THEN <<" ", "c", "u", "e", "\n">> \o DecStr(i)
              ELSE <<"c", "u", "e", " ">> \o DecStr(i) \o <<"\n">>
StoreCue(i) ==
    LET t == IF i <= Len(StartTicks) THEN StartTicks[i] ELSE i * 70007
    IN [start |-> format_timestamp(t), end |-> format_timestamp(t + 15000),
        text |-> CueText(i)]
StoreCues == [i \in 1..(MaxCorpus + 1) |-> StoreCue(i)]
\* n cues, the first half in a.el.vtt and the rest in ab.el.vtt
IndexStore(n) ==
    LET h == (n + 1) \div 2
        fa == SubsName(<<"a">>)
        fb == SubsName(<<"a", "b">>)
    IN  [f \in (IF n > 0 THEN {fa} ELSE {}) \cup (IF n > 1 THEN {fb} ELSE {}) |->
            IF f = fa THEN SubSeq(StoreCues, 1, h) ELSE SubSeq(StoreCues, h + 1, n)]
\* a block whose timing line does not parse
BadCue == [start |-> <<"0", "0", ":", "x">>, end |-> <<"0", "0", ":", "x">>,
           text |-> <<"l", "o", "s", "t">>]
\* the same store with the last block of a.el.vtt malformed
IndexStoreBad(n) ==
    LET st == IndexStore(n)
        fa == SubsName(<<"a">>)
    IN  [f \in DOMAIN st |->
            IF f = fa THEN [i \in 1..Len(st[f]) |-> IF i = Len(st[f]) THEN BadCue ELSE st[f][i]]
            ELSE st[f]]
IndexStores == { IndexStore(n) : n \in 0..MaxCorpus } \cup { IndexStoreBad(n) : n \in 1..MaxCorpus }

\* App start: lines 114-115
LoadIndex(files) ==
    /\ component = "search"
    /\ embeddings = Unloaded
    /\ embeddings' = load_index(subs, files).embeddings
    /\ metadata' = load_index(subs, files).metadata
    /\ UNCHANGED <<acqVars, clipVars, shown, component, sessions, stamp>>

\* Lines 122-136: a query typed into the search bar
Search(q) ==
    /\ component = "search"
    /\ embeddings.is = "tensor"
    /\ shown' = Present(semantic_search(q, embeddings.rows, TopK), metadata)
    /\ UNCHANGED <<acqVars, clipVars, embeddings, metadata, component, sessions, stamp>>

----------------------------------------------------------------------------
(* The system *)

Components == {"acquisition", "clip", "search"}

\* Nothing acquired or rendered yet; the index is built from transcripts
\* acquisition left in subs/ earlier
Init ==
    /\ component \in Components
    /\ subs \in IF component = "search" THEN IndexStores ELSE {<<>>}
    /\ subsDir \in IF component = "acquisition" THEN BOOLEAN ELSE {component = "search"}
    /\ temps = {}
    /\ subsBefore = <<>>
    /\ lastRun = NoRun
    /\ entriesIn = <<>>
    /\ ran = <<>>
    /\ pc = "idle"
    /\ escaped = FALSE
    /\ gifs = <<>>
    /\ lastClip = NoClip
    /\ prevClip = NoClip
    /\ nClips = 0
    /\ embeddings = Unloaded
    /\ metadata = <<>>
    /\ shown = <<>>
    /\ sessions = <<>>
    /\ gifsDir = FALSE
    /\ stamp = NoStamp

Next ==
    \/ ScanFails
    \/ \E vid \in VideoIds, env \in Envs : ProcessSingle(vid, env)
    \/ \E raw \in RawPlaylists : ScanPlaylist(raw)
    \/ \E env \in Envs : PlaylistStep(env)
    \/ \E vid \in VideoIds, start \in StartSeconds, caption \in Captions, env \in ClipEnvs :
            CreateGif(vid, start, caption, env)
    \/ \E files \in FileOrders(subs) : LoadIndex(files)
    \/ \E q \in 1..MaxQuery : Search(q)

Spec == Init /\ [][Next]_vars

\* Two concurrent create_gif_snippet calls, gifs/ empty or not there yet
InitSessions ==
    /\ component = "sessions"
    /\ subs = <<>> /\ subsDir = FALSE /\ temps = {} /\ subsBefore = <<>> /\ lastRun = NoRun
    /\ entriesIn = <<>> /\ ran = <<>> /\ pc = "idle" /\ escaped = FALSE
    /\ gifs = <<>> /\ lastClip = NoClip /\ prevClip = NoClip /\ nClips = 0
    /\ embeddings = Unloaded /\ metadata = <<>> /\ shown = <<>>
    /\ sessions \in [Sessions -> { Fresh(arg) : arg \in SessionArgs }]
    /\ gifsDir \in BOOLEAN
    /\ stamp = NoStamp

NextSessions ==
    \/ \E p \in Sessions : SessionDirExists(p)
    \/ \E p \in Sessions : SessionMakedirs(p)
    \/ \E p \in Sessions : SessionGlob(p)
    \/ \E p \in Sessions : SessionPurge(p)
    \/ \E p \in Sessions : SessionCheck(p)
    \/ \E p \in Sessions, d \in {"ok", "nofile", "raise", "raise_part"} : SessionDownload(p, d)
    \/ \E p \in Sessions : SessionTempCheck(p)
    \/ \E p \in Sessions, e \in {"ok", "fail", "fail_partial"} : SessionEncode(p, e)
    \/ \E p \in Sessions : SessionTempExists(p)
    \/ \E p \in Sessions : SessionRemoveTemp(p)

SpecSessions == InitSessions /\ [][NextSessions]_vars

\* format_timestamp over the segment times of StampInputs
InitStamp ==
    /\ component = "timestamp"
    /\ subs = <<>> /\ subsDir = FALSE /\ temps = {} /\ subsBefore = <<>> /\ lastRun = NoRun
    /\ entriesIn = <<>> /\ ran = <<>> /\ pc = "idle" /\ escaped = FALSE
    /\ gifs = <<>> /\ lastClip = NoClip /\ prevClip = NoClip /\ nClips = 0
    /\ embeddings = Unloaded /\ metadata = <<>> /\ shown = <<>>
    /\ sessions = <<>>
    /\ gifsDir = FALSE
    /\ stamp \in { [seconds |-> t, out |-> <<>>] : t \in StampInputs }

NextStamp == FormatTimestamp

SpecStamp == InitStamp /\ [][NextStamp]_vars

----------------------------------------------------------------------------
(* Properties *)

InSeq(x, q) == \E i \in DOMAIN q : q[i] = x
HasRun == lastRun.vid # NoVid
HasClip == lastClip.vid # NoVid
\* the last two runs were consecutive runs on the same video id
RanTwice == Len(ran) >= 2 /\ ran[Len(ran)] = ran[Len(ran) - 1]
\* the store holds a file subs/<id>*.vtt
Stored(store, vid) == \E n \in DOMAIN store : IsPrefix(vid, n) /\ IsSuffix(VttExt, n)

\* C1 as stated: of two consecutive runs on the same video id the second
\* invokes no capability and leaves the Transcript Store unchanged.
C1_AnySecondRunIsNoOp ==
    RanTwice => lastRun.calls = <<>> /\ subs = subsBefore

\* C1: of two consecutive runs on the same video id, when the first ends
\* with a transcript file for the id in the store, the second only performs
\* the existence check: it invokes no capability and leaves the store and
\* the working directory as they were.
C1_SecondRunIsNoOp ==
    RanTwice /\ Stored(subsBefore, lastRun.vid)
        => lastRun.calls = <<>> /\ subs = subsBefore /\ lastRun.status = "DONE"

C1_Witness ==
    /\ RanTwice
    /\ Stored(subsBefore, lastRun.vid)
    /\ lastRun.calls = <<>>
    /\ SubsName(lastRun.vid) \in DOMAIN subs

\* C2 as stated: with no transcript and none left by the platform step, the
\* fallback is entered, and when its audio download produces the audio file
\* the run ends with a transcript file for the id in the store.
C2_FallbackAlwaysCompletes ==
    HasRun /\ ~lastRun.existed /\ lastRun.env.platform = "none"
        => /\ InSeq("audio", lastRun.calls)
           /\ lastRun.env.audio = "ok" => Stored(subs, lastRun.vid)

\* C3: when the audio download raises or leaves no audio file the run
\* ends FAILED: the store is unchanged and holds no transcript for the id,
\* transcription is never invoked, and nothing is raised to the caller.
C3_AudioFailureIsContained ==
    HasRun /\ InSeq("audio", lastRun.calls)
           /\ (lastRun.env.audio = "raise" \/ ~lastRun.audioPresent)
        => /\ lastRun.status = "FAILED"
           /\ subs = subsBefore
           /\ ~Stored(subs, lastRun.vid)
           /\ ~InSeq("transcribe", lastRun.calls)
           /\ ~escaped

C3_Witness ==
    /\ HasRun
    /\ lastRun.env.audio = "raise"
    /\ lastRun.status = "FAILED"
    /\ entriesIn = <<>>
    /\ AudioName(lastRun.vid) \in temps

\* C4: for a playlist, acquisition runs for the resolved entries in list
\* order, the loop goes on after an entry whatever its outcome, ends only
\* when every entry has been run, and raises nothing to the caller.
C4_BatchIsolation ==
    entriesIn # <<>>
        => /\ IsPrefix(ran, entriesIn)
           /\ pc = "idle" => ran = entriesIn
           /\ ~escaped

C4_Witness ==
    /\ Len(entriesIn) >= 2
    /\ Len(ran) = 1
    /\ lastRun.status = "RAISED"
    /\ pc = "loop"

\* C5 as stated: after a run that did not complete, the store holds no
\* transcript for the id; a transcript written by the fallback holds every
\* segment the transcription yields.
C5_FailedLeavesNoTranscript ==
    HasRun
        => /\ lastRun.status # "DONE" => ~Stored(subs, lastRun.vid)
           /\ InSeq("transcribe", lastRun.calls) /\ SubsName(lastRun.vid) \in DOMAIN subs
                => Len(subs[SubsName(lastRun.vid)]) = Len(lastRun.segments)

\* C6 as stated: of two consecutive calls with the same output path the
\* second invokes neither tool and returns the path.
C6_AnySecondCallIsHit ==
    HasClip /\ prevClip.path = lastClip.path
        => lastClip.calls = <<>> /\ lastClip.result = lastClip.path

\* C6: of two consecutive calls with the same output path, when the first
\* returned the path, the second invokes neither the download nor the
\* encoder and returns the same path.
C6_SecondCallIsHit ==
    HasClip /\ prevClip.path = lastClip.path /\ prevClip.result = prevClip.path
        => lastClip.calls = <<>> /\ lastClip.result = prevClip.result

C6_Witness ==
    /\ HasClip
    /\ prevClip.path = lastClip.path
    /\ prevClip.result = prevClip.path
    /\ lastClip.calls = <<>>
    /\ gifs[lastClip.path].kind = "gif"

\* C7 as stated: when the encoder fails the call returns None and no file
\* exists at the output path.
C7_FailedEncodeLeavesNothing ==
    HasClip /\ InSeq("encode", lastClip.calls) /\ lastClip.env.encode # "ok"
        => lastClip.result = None /\ lastClip.path \notin DOMAIN gifs

\* C8: after a call of create_gif_snippet that returns a path no
\* gifs/temp_<id>.* file remains, and after a run that ends DONE through the
\* transcription fallback no temp_<id>.* file remains.
C8_TempCleanup ==
    /\ HasClip /\ lastClip.result # None
        => \A n \in DOMAIN gifs : ~IsPrefix(TempPrefix(lastClip.vid) \o <<".">>, n)
    /\ HasRun /\ lastRun.status = "DONE" /\ InSeq("transcribe", lastRun.calls)
        => \A n \in temps : ~IsPrefix(<<"temp_">> \o lastRun.vid \o <<".">>, n)

C8_Witness ==
    /\ HasClip
    /\ prevClip.vid = lastClip.vid
    /\ prevClip.result = None
    /\ lastClip.calls = <<"download", "encode">>
    /\ lastClip.result = lastClip.path
    /\ lastClip.path \in DOMAIN gifs

\* C9: the hits presented are in non-increasing order of score, none has a
\* score under 0.25, and there are at most top_k of them.
C9_Ranking ==
    /\ \A i \in 1..(Len(shown) - 1) : shown[i].score >= shown[i + 1].score
    /\ \A i \in 1..Len(shown) : shown[i].score >= Floor
    /\ Len(shown) <= TopK

C9_Witness ==
    /\ Len(metadata) > TopK
    /\ Len(shown) >= 3
    /\ Len(shown) < TopK
    /\ shown[1].score > shown[Len(shown)].score

\* a cue timestamp HH:MM:SS.mmm in milliseconds, read field by field
StampMs(start) ==
    ((DigitValue(start[1]) * 10 + DigitValue(start[2])) * 3600
        + (DigitValue(start[4]) * 10 + DigitValue(start[5])) * 60
        + (DigitValue(start[7]) * 10 + DigitValue(start[8]))) * 1000
    + DigitValue(start[10]) * 100 + DigitValue(start[11]) * 10 + DigitValue(start[12])

Stamp65 == <<"0", "0", ":", "0", "1", ":", "0", "5", ".", "0", "0", "0">>
Stamp1 == <<"0", "0", ":", "0", "0", ":", "0", "1", ".", "0", "0", "0">>

\* C10 as stated: the seek offset of every hit is max(0, start - 2 s).
C10_SeekIsStartMinusTwo ==
    \A i \in 1..Len(shown) :
        shown[i].seconds * 1000 = Max(0, StampMs(shown[i].start) - Rewind * 1000)

\* C10: the seek offset of every hit is max(0, whole seconds of the start
\* - 2) and never negative; 00:01:05.000 gives 63 and 00:00:01.000 gives 0.
C10_SeekOffset ==
    \A i \in 1..Len(shown) :
        /\ shown[i].seconds = Max(0, (StampMs(shown[i].start) \div 1000) - Rewind)
        /\ shown[i].seconds >= 0
        /\ shown[i].start = Stamp65 => shown[i].seconds = 63
        /\ shown[i].start = Stamp1 => shown[i].seconds = 0

C10_Witness ==
    /\ \E i \in 1..Len(shown) : shown[i].start = Stamp65
    /\ \E i \in 1..Len(shown) : shown[i].start = Stamp1
    /\ \E i \in 1..Len(shown) : StampMs(shown[i].start) % 1000 # 0 /\ shown[i].seconds > 0

\* the index has been built from the store in subs/
Loaded == component = "search" /\ embeddings # Unloaded
\* the files of the store that parse, and the cues of a file
Parseable(f) == \A i \in 1..Len(subs[f]) : TimestampOk(subs[f][i].start) /\ TimestampOk(subs[f][i].end)
\* a cue's text trimmed, each newline turned into one space
Trimmed(text) == [i \in 1..Len(Strip(text)) |-> IF Strip(text)[i] = "\n" THEN " " ELSE Strip(text)[i]]
\* the number of entries of the corpus that carry this cue
Copies(f, c) ==
    Cardinality({ i \in 1..Len(metadata) :
        /\ metadata[i].video_id = SubSeq(f, 1, Len(f) - Len(SubsName(<<>>)))
        /\ metadata[i].start = c.start
        /\ metadata[i].text = Trimmed(c.text) })

\* the number of entries of the corpus that carry this cue with its text
\* changed in its newlines only
CopiesUntrimmed(f, c) ==
    Cardinality({ i \in 1..Len(metadata) :
        /\ metadata[i].video_id = SubSeq(f, 1, Len(f) - Len(SubsName(<<>>)))
        /\ metadata[i].start = c.start
        /\ metadata[i].text = [j \in 1..Len(c.text) |->
                                    IF c.text[j] = "\n" THEN " " ELSE c.text[j]] })

\* C11 as stated: built from parseable transcripts, the corpus holds no cue
\* whose trimmed text is shorter than 3 characters and holds every other cue
\* exactly once, its text unmodified apart from each newline being replaced
\* by one space.
C11_TextOnlyNewlinesReplaced ==
    Loaded /\ (\A f \in DOMAIN subs : Parseable(f))
        => /\ \A i \in 1..Len(metadata) : Len(Strip(metadata[i].text)) >= 3
           /\ \A f \in DOMAIN subs : \A k \in 1..Len(subs[f]) :
                CopiesUntrimmed(f, subs[f][k])
                    = IF Len(Strip(subs[f][k].text)) < 3 THEN 0 ELSE 1

\* C11: built from parseable transcripts, the corpus holds no cue whose
\* trimmed text is shorter than 3 characters and holds every other cue
\* exactly once, its text trimmed of leading and trailing whitespace and
\* each newline left inside it replaced by one space.
C11_CueFiltering ==
    Loaded /\ (\A f \in DOMAIN subs : Parseable(f))
        => /\ \A i \in 1..Len(metadata) : Len(metadata[i].text) >= 3
           /\ \A f \in DOMAIN subs : \A k \in 1..Len(subs[f]) :
                Copies(f, subs[f][k]) = IF Len(Strip(subs[f][k].text)) < 3 THEN 0 ELSE 1
           /\ \A i \in 1..Len(metadata) :
                \E f \in DOMAIN subs : \E k \in 1..Len(subs[f]) :
                    /\ metadata[i].start = subs[f][k].start
                    /\ metadata[i].text = Trimmed(subs[f][k].text)

C11_Witness ==
    /\ Loaded
    /\ \A f \in DOMAIN subs : Parseable(f)
    /\ Len(metadata) >= 4
    /\ \E f \in DOMAIN subs : \E k \in 1..Len(subs[f]) :
            Len(subs[f][k].text) >= 3 /\ Len(Strip(subs[f][k].text)) < 3
    /\ \E f \in DOMAIN subs : \E k \in 1..Len(subs[f]) :
            /\ \E j \in 1..Len(subs[f][k].text) : subs[f][k].text[j] = "\n"
            /\ Copies(f, subs[f][k]) = 1
            /\ \E j \in 1..Len(Trimmed(subs[f][k].text)) : Trimmed(subs[f][k].text)[j] = " "

\* C12: after a build the embeddings and the metadata have the same
\* length and embeddings[i] was computed from the text of metadata[i]; a
\* build yields either both empty (None, []) or both populated.
C12_CorpusAligned ==
    Loaded
        => /\ embeddings.is \in {"None", "tensor"}
           /\ embeddings.is = "None" <=> metadata = <<>>
           /\ Len(embeddings.rows) = Len(metadata)
           /\ \A i \in 1..Len(metadata) : embeddings.rows[i] = metadata[i].text

C12_Witness ==
    /\ Loaded
    /\ embeddings.is = "tensor"
    /\ Len(metadata) >= 3
    /\ \E f \in DOMAIN subs : Len(subs[f]) > Cardinality({i \in 1..Len(metadata) :
            metadata[i].video_id = IndexVideoId(f)})

\* C13: a transcript file that fails to parse contributes no cue to the
\* corpus, not even the cues ahead of the malformed block, and every cue of
\* every parseable file that passes the length filter is indexed.
C13_ParseFailureContained ==
    Loaded
        => \A f \in DOMAIN subs :
            IF Parseable(f)
            THEN \A k \in 1..Len(subs[f]) :
                    Len(Strip(subs[f][k].text)) >= 3 => Copies(f, subs[f][k]) = 1
            ELSE \A i \in 1..Len(metadata) :
                    metadata[i].video_id # SubSeq(f, 1, Len(f) - Len(SubsName(<<>>)))

C13_Witness ==
    /\ Loaded
    /\ \E f \in DOMAIN subs : ~Parseable(f) /\ Len(subs[f]) >= 3 /\ TimestampOk(subs[f][1].start)
    /\ \E f \in DOMAIN subs : Parseable(f) /\ Len(subs[f]) >= 2
    /\ Len(metadata) >= 2

\* the call built a filter specification and handed it to the encoder
Encoded == HasClip /\ lastClip.filters # <<>>
\* what the filter specification holds between text=' and the closing quote
Embedded == SubSeq(lastClip.filters, Len(FilterHead) + 1, Len(lastClip.filters) - Len(FilterTail))
\* s without the characters of drop
Without(s, drop) == SelectSeq(s, LAMBDA c : c \notin drop)
Framed == IsPrefix(FilterHead, lastClip.filters) /\ IsSuffix(FilterTail, lastClip.filters)

\* C14 as stated: the filter specification holds no quote character (single
\* or double) and no colon that came from the caption, and the embedded text
\* is the caption with exactly those characters removed.
C14_NoQuoteOfAnyKind ==
    Encoded
        => /\ Framed
           /\ \A i \in 1..Len(Embedded) : Embedded[i] \notin {"'", "\"", ":"}
           /\ Embedded = Without(lastClip.caption, {"'", "\"", ":"})

\* C14: the filter specification holds no single quote and no colon that
\* came from the caption, and the embedded text is the caption with exactly
\* the single quotes and the colons removed; every other character, a
\* double quote included, is embedded as it is.
C14_CaptionSanitized ==
    Encoded
        => /\ Framed
           /\ \A i \in 1..Len(Embedded) : Embedded[i] \notin {"'", ":"}
           /\ Embedded = Without(lastClip.caption, {"'", ":"})
           /\ lastClip.path \in DOMAIN gifs => gifs[lastClip.path].text = Embedded

C14_Witness ==
    /\ Encoded
    /\ lastClip.result # None
    /\ \A c \in {"'", "\"", ":"} : \E i \in 1..Len(lastClip.caption) : lastClip.caption[i] = c
    /\ \E i \in 1..Len(Embedded) : Embedded[i] = "\""
    /\ Len(Embedded) = Len(lastClip.caption) - 2

\* the caption part of a clip key: letters, digits and spaces only,
\* trimmed, at most 20 characters, spaces written as underscores
Sanitized(caption) ==
    LET kept == Strip(SelectSeq(caption, LAMBDA c : c \in Alnum \/ c = " "))
    IN  [i \in 1..Min(20, Len(kept)) |-> IF kept[i] = " " THEN "_" ELSE kept[i]]
Stamp10 == <<"0", "0", ":", "0", "0", ":", "1", "0", ".", "0", "0", "0">>
Abc123 == <<"a", "b", "c", "1", "2", "3">>

\* C15: the path a successful create_gif_snippet returns is
\* gifs/<videoId>_<second>_<sanitizedCaption>.gif, a function of these three
\* only; for the hit {abc123, 00:00:10.000, 'hello world'} the seek offset is
\* 8 and the path is gifs/abc123_8_hello_world.gif.
C15_ArtifactPath ==
    /\ HasClip /\ lastClip.result # None
        => lastClip.result = <<"g", "i", "f", "s", "/">> \o lastClip.vid \o <<"_">>
                \o DecStr(lastClip.start) \o <<"_">> \o Sanitized(lastClip.caption)
                \o <<".", "g", "i", "f">>
    /\ SeekSeconds(Stamp10) = 8
    /\ OutputGif(Abc123, SeekSeconds(Stamp10), CapHello)
            = <<"g", "i", "f", "s", "/", "a", "b", "c", "1", "2", "3", "_", "8", "_",
                "h", "e", "l", "l", "o", "_", "w", "o", "r", "l", "d", ".", "g", "i", "f">>

C15_Witness ==
    /\ HasClip
    /\ lastClip.calls = <<"download", "encode">>
    /\ lastClip.start = 8 /\ lastClip.caption = CapHello
    /\ lastClip.result = <<"g", "i", "f", "s", "/", "a", "_", "8", "_",
                "h", "e", "l", "l", "o", "_", "w", "o", "r", "l", "d", ".", "g", "i", "f">>
    /\ lastClip.result \in DOMAIN gifs

\* the two concurrent calls have different clip keys
KeysDiffer == sessions[1].path # sessions[2].path

\* C16: in every interleaving of two create_gif_snippet calls with different
\* clip keys, the temporary media a call downloaded is still there,
\* unchanged, when the call encodes it, and the artifact a successful call
\* rendered comes from that call's own window.
C16_DistinctKeysNeverConflict ==
    component = "sessions" /\ KeysDiffer
        => \A p \in Sessions :
            /\ sessions[p].pc \in {"downloaded", "encode"} /\ sessions[p].own # NoMedia
                => /\ TempVideo(sessions[p].vid) \in DOMAIN gifs
                   /\ gifs[TempVideo(sessions[p].vid)] = sessions[p].own
            /\ sessions[p].pc = "done" /\ sessions[p].rendered
                    /\ sessions[p].result = sessions[p].path
                => /\ gifs[sessions[p].path].media.vid = sessions[p].vid
                   /\ gifs[sessions[p].path].media.from = sessions[p].start

\* C17: a call of create_gif_snippet that hits the cache changes nothing in
\* gifs/: no temporary media is purged by it.
C17_CacheHitChangesNothing ==
    HasClip /\ lastClip.calls = <<>> /\ lastClip.result # None
        => lastClip.purged = {}

\* C18: the file at the path create_gif_snippet returns was rendered with
\* the overlay text of this request's caption, from this request's start
\* second.
C18_ArtifactMatchesRequest ==
    HasClip /\ lastClip.result # None /\ gifs[lastClip.result].kind = "gif"
        => /\ gifs[lastClip.result].text = Without(lastClip.caption, {"'", ":"})
           /\ gifs[lastClip.result].media.vid = lastClip.vid
           /\ gifs[lastClip.result].media.from = lastClip.start

\* C19: a video id is skipped as already acquired only if subs/ held a
\* transcript file whose name up to the first '.' (the id the indexer
\* derives) is that video id.
C19_SkippedOnlyIfAttributed ==
    HasRun /\ lastRun.existed /\ lastRun.status = "DONE"
        => \E n \in DOMAIN subsBefore : IndexVideoId(n) = lastRun.vid

\* the fields of a written timestamp
StampField(t, i) == DigitValue(t[i]) * 10 + DigitValue(t[i + 1])
StampMillis(t) == DigitValue(t[10]) * 100 + DigitValue(t[11]) * 10 + DigitValue(t[12])

\* C20: format_timestamp writes every segment time as HH:MM:SS.mmm with a
\* minutes field below 60 and a seconds field below 60.000, and
\* h*3600 + m*60 + s of what it wrote is the time rounded to the nearest
\* millisecond (either neighbour when the time lies halfway).
C20_TimestampWellFormed ==
    stamp.out # <<>>
        => /\ TimestampOk(stamp.out)
           /\ StampField(stamp.out, 4) < 60
           /\ StampField(stamp.out, 7) < 60
           /\ (StampField(stamp.out, 1) * 3600 + StampField(stamp.out, 4) * 60
                    + StampField(stamp.out, 7)) * 1000 + StampMillis(stamp.out)
                \in { (stamp.seconds + 4) \div 10, (stamp.seconds + 5) \div 10 }

====
